---------------------------- MODULE Spec2Model ----------------------------
(***************************************************************************)
(* The RunningHub job queue of script-generator-sse: one global FIFO queue *)
(* of render jobs, a fixed pool of worker coroutines, a per-request event  *)
(* queue drained by the request's SSE generator, and the cancel route.     *)
(*                                                                         *)
(* The program runs on one asyncio event loop, so a coroutine runs         *)
(* atomically from one suspending await to the next.  put() on the         *)
(* unbounded queues and get() on a non-empty queue do not suspend; the     *)
(* HTTP calls, the sleeps, yield and get() on an empty queue do.  Each     *)
(* action below is one such atomic stretch of one coroutine.               *)
(***************************************************************************)
EXTENDS Integers, Sequences, FiniteSets, TLC

\* ------------------------------------------------------------------ bounds
\* requests, and prompts per request
NumBatches == 2
MaxJobs == 2
\* worker coroutines (MAX_CONCURRENT_TASKS is 3 in the program)
NumWorkers == 2
\* cancel calls per request
MaxCancels == 2
\* max_retries of the create retry loop (10 in the program)
MaxRetries == 3
\* MAX_STATUS_CHECK_ATTEMPTS (1000 in the program)
MaxStatusChecks == 2
\* "queue full" answers the provider gives in one run
MaxHits == 3

\* ------------------------------------------------------- program constants
RetryDelay == 30
MaxWait == 300

Batches == 1..NumBatches
Workers == 1..NumWorkers
\* subtask ids "<request_id>_<episode>_<scene>_<idx>": request ids are uuid4
\* strings of one length, so the prefix and substring tests of the cancel
\* route relate a subtask to a request exactly when it is the request's own.
JobIds == Batches \X (1..MaxJobs)
NoJob == <<0, 0>>
\* the string "CANCELLED_REQUEST" stored among a request's RunningHub ids
Marker(b) == <<b, 0>>
BatchOf(j) == j[1]

VARIABLES
  readerPc,        \* position of each request's event_generator
  totalTasks,      \* total_tasks / len(request_task_ids) of the request
  autoDownload,    \* request.auto_download
  eventQueues,     \* requests registered in global_event_queues
  requestMeta,     \* requests registered in global_request_metadata
  chan,            \* every event put on the request's event queue, in order
  rd,              \* how many of them the generator has taken
  completeSent,    \* the generator's complete_sent
  downloads,       \* the generator's download tasks that are not done
  yielded,         \* number of "complete" events yielded to the caller
  queue,           \* global_task_queue: entries [job, delayed]
  unfinished,      \* global_task_queue._unfinished_tasks
  status,          \* global_tasks_status[job]["status"], "NONE" when absent
  rhTasks,         \* global_runninghub_tasks[request] without the marker
  cancelFlag,      \* "CANCELLED_REQUEST" in global_runninghub_tasks[request]
  cancelledIds,    \* cancelled_task_ids
  workerRunning,   \* is_global_worker_running
  startTasks,      \* start_global_worker tasks created and not yet run
  wk,              \* each worker coroutine: [pc, job, retry, polls, sleep]
  cancelPc,        \* position of the cancel route called for the request
  cancelTasks,     \* its tasks_to_cancel
  cancelIds,       \* its runninghub_task_ids still to cancel remotely
  cancelCalls,     \* number of cancel calls made for the request
  createCalls,     \* history: calls of call_runninghub_workflow per job
  capacityHits,    \* history: TASK_QUEUE_MAXED responses per job
  queuedAtCancel,  \* history: jobs QUEUED when a cancel call arrived
  startRuns,       \* history: start_global_worker tasks that have run
  spawned          \* history: worker_process coroutines created

vars == <<readerPc, totalTasks, autoDownload, eventQueues, requestMeta, chan, rd,
          completeSent, downloads, yielded, queue, unfinished, status, rhTasks,
          cancelFlag, cancelledIds, workerRunning, startTasks, wk, cancelPc,
          cancelTasks, cancelIds, cancelCalls, createCalls, capacityHits,
          queuedAtCancel, startRuns, spawned>>

readerVars == <<readerPc, totalTasks, autoDownload, requestMeta, rd, completeSent,
                downloads, yielded>>
cancelVars == <<cancelPc, cancelTasks, cancelIds, cancelCalls, queuedAtCancel>>
poolVars == <<workerRunning, startTasks, startRuns, spawned>>
histVars == <<createCalls, capacityHits>>

\* ----------------------------------------------------------------- events
\* format_sse_event(event_type, data): the event name and the data fields the
\* generator or a claim looks at.  The generator tests `"event: <name>" in
\* event`, which holds exactly for the event of that name.
Ev(t, j, x, y, z, r) ==
  [type |-> t, job |-> j, x |-> x, y |-> y, z |-> z, res |-> r]

JobsOf(b) == {j \in JobIds : BatchOf(j) = b /\ j[2] <= totalTasks[b]}

\* the request's tasks present in global_tasks_status
Known(b, st) == {j \in JobIds : BatchOf(j) = b /\ st[j] # "NONE"}

Count(S, st, wanted) == Cardinality({j \in S : st[j] \in wanted})

Min(a, b) == IF a < b THEN a ELSE b

\* a faulty wait_time that does not grow with the retry count; C10 tells it
\* from the program's
WaitTimeFlat(retry) == Min(RetryDelay, MaxWait)

\* a faulty wait_time that is always the cap; C30 tells it from the program's
WaitTimeCapOnly(retry) == MaxWait

\* wait_time = min(retry_delay * retry_count, 300)
WaitTime(retry) == Min(RetryDelay * retry, MaxWait)

\* asyncio.Queue.task_done(): raises ValueError when the counter is not positive
TaskDoneRaises(u) == u <= 0
TaskDone(u) == IF u <= 0 THEN u ELSE u - 1

\* ------------------------------------------------- progress aggregation
Finished == {"COMPLETED", "ERROR"}

\* a faulty test that does not compare the completed count with the total;
\* C3 tells it from the program's
AllTasksCompletedLoose(completed, total, waiting) == waiting = 0

\* the test that guards the all_tasks_completed event
AllTasksCompleted(completed, total, waiting) ==
  completed = total /\ waiting = 0

\* a faulty backup computation whose total counts only the finished and the
\* waiting tasks; C37 tells it from the program's
ProgressEventsSeen(b, st) ==
  IF b \in requestMeta
  THEN LET ids == JobsOf(b) \cap Known(b, st)
           completed == Count(ids, st, Finished)
           waiting == Count(ids, st, {"WAITING"})
           total == totalTasks[b]
       IN <<Ev("progress", NoJob, completed, total, waiting, "")>> \o
          (IF AllTasksCompleted(completed, total, waiting)
           THEN <<Ev("all_tasks_completed", NoJob, completed, total, 0, "")>>
           ELSE << >>)
  ELSE LET tasks == Known(b, st)
           completed == Count(tasks, st, Finished)
           waiting == Count(tasks, st, {"WAITING"})
           total == completed + waiting
       IN <<Ev("progress", NoJob, completed, total, waiting, "")>> \o
          (IF AllTasksCompleted(completed, total, waiting) /\ total > 0
           THEN <<Ev("all_tasks_completed", NoJob, completed, total, 0, "")>>
           ELSE << >>)

\* the progress update of the worker's finally block: from the request's
\* metadata when it is registered, else from every known task of the request
ProgressEvents(b, st) ==
  IF b \in requestMeta
  THEN LET ids == JobsOf(b) \cap Known(b, st)
           completed == Count(ids, st, Finished)
           waiting == Count(ids, st, {"WAITING"})
           total == totalTasks[b]
       IN <<Ev("progress", NoJob, completed, total, waiting, "")>> \o
          (IF AllTasksCompleted(completed, total, waiting)
           THEN <<Ev("all_tasks_completed", NoJob, completed, total, 0, "")>>
           ELSE << >>)
  ELSE LET tasks == Known(b, st)
           completed == Count(tasks, st, Finished)
           waiting == Count(tasks, st, {"WAITING"})
           total == Cardinality(tasks)
       IN <<Ev("progress", NoJob, completed, total, waiting, "")>> \o
          (IF AllTasksCompleted(completed, total, waiting) /\ total > 0
           THEN <<Ev("all_tasks_completed", NoJob, completed, total, 0, "")>>
           ELSE << >>)

\* finally: task_done() first; when it raises, the progress update is skipped
\* and the outer handler swallows the error (its own task_done() raises too)
FinallyEvents(b, st, u) ==
  IF TaskDoneRaises(u) THEN << >> ELSE ProgressEvents(b, st)

\* -------------------------------------------------------------------- Init
\* sleep: the wait_time that the worker's backoff sleep was started with
IdleWorker ==
  [pc |-> "idle", job |-> NoJob, retry |-> 0, polls |-> 0, sleep |-> 0]

Init ==
  /\ readerPc = [b \in Batches |-> "new"]
  /\ totalTasks = [b \in Batches |-> 0]
  /\ autoDownload = [b \in Batches |-> FALSE]
  /\ eventQueues = {}
  /\ requestMeta = {}
  /\ chan = [b \in Batches |-> << >>]
  /\ rd = [b \in Batches |-> 0]
  /\ completeSent = [b \in Batches |-> FALSE]
  /\ downloads = [b \in Batches |-> 0]
  /\ yielded = [b \in Batches |-> 0]
  /\ queue = << >>
  /\ unfinished = 0
  /\ status = [j \in JobIds |-> "NONE"]
  /\ rhTasks = [b \in Batches |-> {}]
  /\ cancelFlag = [b \in Batches |-> FALSE]
  /\ cancelledIds = {}
  /\ workerRunning = FALSE
  /\ startTasks = 0
  /\ wk = [w \in Workers |-> [IdleWorker EXCEPT !.pc = "off"]]
  /\ cancelPc = [b \in Batches |-> "idle"]
  /\ cancelTasks = [b \in Batches |-> {}]
  /\ cancelIds = [b \in Batches |-> {}]
  /\ cancelCalls = [b \in Batches |-> 0]
  /\ createCalls = [j \in JobIds |-> 0]
  /\ capacityHits = [j \in JobIds |-> 0]
  /\ queuedAtCancel = [b \in Batches |-> {}]
  /\ startRuns = 0
  /\ spawned = 0

\* ------------------------------------------------------------ worker pool
\* a faulty start that creates the worker coroutines without looking at
\* is_global_worker_running; C15 tells it from the program's
StartGlobalWorkerAgain ==
  /\ startTasks > 0
  /\ startTasks' = startTasks - 1
  /\ startRuns' = startRuns + 1
  /\ workerRunning' = TRUE
  /\ wk' = IF workerRunning THEN wk ELSE [w \in Workers |-> IdleWorker]
  /\ spawned' = spawned + NumWorkers
  /\ UNCHANGED <<readerVars, cancelVars, histVars, eventQueues, chan, queue,
                 unfinished, status, rhTasks, cancelFlag, cancelledIds>>

\* start_global_worker: under the lock, return when the pool already runs,
\* else create the MAX_CONCURRENT_TASKS worker coroutines
StartGlobalWorker ==
  /\ startTasks > 0
  /\ startTasks' = startTasks - 1
  /\ startRuns' = startRuns + 1
  /\ workerRunning' = TRUE
  /\ wk' = IF workerRunning THEN wk ELSE [w \in Workers |-> IdleWorker]
  /\ spawned' = IF workerRunning THEN spawned ELSE spawned + NumWorkers
  /\ UNCHANGED <<readerVars, cancelVars, histVars, eventQueues, chan, queue,
                 unfinished, status, rhTasks, cancelFlag, cancelledIds>>

\* ---------------------------------------------------------------- workers
CanDequeue(w) == wk[w].pc = "idle" /\ queue # << >>

\* a faulty skip that marks the skipped task ERROR; C38 tells it from the
\* program's
DequeueDiscardMarks(w) ==
  /\ CanDequeue(w)
  /\ BatchOf(Head(queue).job) \notin eventQueues
  /\ queue' = Tail(queue)
  /\ unfinished' = TaskDone(unfinished)
  /\ status' = [status EXCEPT ![Head(queue).job] = "ERROR"]
  /\ UNCHANGED <<readerVars, cancelVars, poolVars, histVars, eventQueues, chan,
                 rhTasks, cancelFlag, cancelledIds, wk>>

\* no event queue is registered for the task's request: skip the task
DequeueDiscard(w) ==
  /\ CanDequeue(w)
  /\ BatchOf(Head(queue).job) \notin eventQueues
  /\ queue' = Tail(queue)
  /\ unfinished' = TaskDone(unfinished)
  /\ UNCHANGED <<readerVars, cancelVars, poolVars, histVars, eventQueues, chan,
                 status, rhTasks, cancelFlag, cancelledIds, wk>>

\* a faulty put-back that leaves the entry at the head of the queue as well;
\* C23 tells it from the program's
DequeuePutBackCopy(w) ==
  /\ CanDequeue(w)
  /\ BatchOf(Head(queue).job) \in eventQueues
  /\ Head(queue).delayed
  /\ queue' = Append(queue, Head(queue))
  /\ unfinished' = TaskDone(unfinished + 1)
  /\ UNCHANGED <<readerVars, cancelVars, poolVars, histVars, eventQueues, chan,
                 status, rhTasks, cancelFlag, cancelledIds, wk>>

\* retry_after_queue_full and added_time still ahead: back to the queue's end
DequeuePutBack(w) ==
  /\ CanDequeue(w)
  /\ BatchOf(Head(queue).job) \in eventQueues
  /\ Head(queue).delayed
  /\ queue' = Append(Tail(queue), Head(queue))
  /\ unfinished' = TaskDone(unfinished + 1)
  /\ UNCHANGED <<readerVars, cancelVars, poolVars, histVars, eventQueues, chan,
                 status, rhTasks, cancelFlag, cancelledIds, wk>>

\* the request carries the cancel marker: PROCESSING, then CANCELLED at once
DequeueCancelled(w) ==
  /\ CanDequeue(w)
  /\ LET j == Head(queue).job
         b == BatchOf(j)
     IN /\ b \in eventQueues
        /\ ~Head(queue).delayed
        /\ cancelFlag[b]
        /\ status' = [status EXCEPT ![j] = "CANCELLED"]
        /\ chan' = [chan EXCEPT ![b] = @ \o
                      <<Ev("status", j, 0, 0, 0, "PROCESSING"),
                        Ev("task_cancelled", j, 0, 0, 0, "")>>]
  /\ queue' = Tail(queue)
  /\ unfinished' = TaskDone(unfinished)
  /\ UNCHANGED <<readerVars, cancelVars, poolVars, histVars, eventQueues,
                 rhTasks, cancelFlag, cancelledIds, wk>>

\* a faulty dequeue that takes a task up without looking at its added_time;
\* C29 tells it from the program's
DequeueStartEarly(w) ==
  /\ CanDequeue(w)
  /\ LET j == Head(queue).job
         b == BatchOf(j)
     IN /\ b \in eventQueues
        /\ ~cancelFlag[b]
        /\ status' = [status EXCEPT ![j] = "PROCESSING"]
        /\ chan' = [chan EXCEPT ![b] = @ \o
                      <<Ev("status", j, 0, 0, 0, "PROCESSING")>>]
        /\ wk' = [wk EXCEPT ![w] = [pc |-> "create", job |-> j, retry |-> 0,
                                     polls |-> 0, sleep |-> 0]]
        /\ createCalls' = [createCalls EXCEPT ![j] = @ + 1]
  /\ queue' = Tail(queue)
  /\ UNCHANGED <<readerVars, cancelVars, poolVars, capacityHits, eventQueues,
                 unfinished, rhTasks, cancelFlag, cancelledIds>>

\* the task is taken up: PROCESSING, and the first create call goes out
DequeueStart(w) ==
  /\ CanDequeue(w)
  /\ LET j == Head(queue).job
         b == BatchOf(j)
     IN /\ b \in eventQueues
        /\ ~Head(queue).delayed
        /\ ~cancelFlag[b]
        /\ status' = [status EXCEPT ![j] = "PROCESSING"]
        /\ chan' = [chan EXCEPT ![b] = @ \o
                      <<Ev("status", j, 0, 0, 0, "PROCESSING")>>]
        /\ wk' = [wk EXCEPT ![w] = [pc |-> "create", job |-> j, retry |-> 0,
                                     polls |-> 0, sleep |-> 0]]
        /\ createCalls' = [createCalls EXCEPT ![j] = @ + 1]
  /\ queue' = Tail(queue)
  /\ UNCHANGED <<readerVars, cancelVars, poolVars, capacityHits, eventQueues,
                 unfinished, rhTasks, cancelFlag, cancelledIds>>

\* the end of a task's handling: the registry write, the task's last events,
\* then the finally block (task_done and the progress update)
EndJob(w, st, evs) ==
  LET b == BatchOf(wk[w].job)
  IN /\ status' = st
     /\ chan' = [chan EXCEPT ![b] = @ \o evs \o FinallyEvents(b, st, unfinished)]
     /\ unfinished' = TaskDone(unfinished)
     /\ wk' = [wk EXCEPT ![w] = IdleWorker]

\* a faulty completion that leaves the registry entry as it was; C12 tells it
\* from the program's
CompleteJobStale(w, created, final) ==
  EndJob(w, status, created)

\* the registry entry after the task's handling returned: always COMPLETED,
\* with result.status SUCCESS (x = 1) only for a successful final status
CompleteJob(w, created, final) ==
  LET j == wk[w].job
  IN EndJob(w, [status EXCEPT ![j] = "COMPLETED"],
            created \o <<Ev("subtask_completed", j,
                            IF final = "SUCCESS" THEN 1 ELSE 0, 0, 0, final)>>)

RECURSIVE SumHits(_)
SumHits(S) ==
  IF S = {} THEN 0
  ELSE LET j == CHOOSE k \in S : TRUE IN capacityHits[j] + SumHits(S \ {j})

\* the TASK_QUEUE_MAXED answers the provider has given so far
TotalHits == SumHits(JobIds)

\* a faulty handling of the "queue full" answer that fails the task at the
\* retry limit; C13 tells it from the program's
CreateCapacityFails(w) ==
  /\ wk[w].pc = "create"
  /\ TotalHits < MaxHits
  /\ LET j == wk[w].job
         b == BatchOf(j)
         retry == wk[w].retry + 1
         waiting == Ev("task_waiting", j, retry, WaitTime(retry), MaxRetries, "")
     IN /\ capacityHits' = [capacityHits EXCEPT ![j] = @ + 1]
        /\ IF retry >= MaxRetries
           THEN /\ EndJob(w, [status EXCEPT ![j] = "ERROR"],
                          <<waiting, Ev("task_error", j, 0, 0, 0, "")>>)
                /\ UNCHANGED queue
           ELSE /\ status' = [status EXCEPT ![j] = "WAITING"]
                /\ chan' = [chan EXCEPT ![b] = @ \o <<waiting>>]
                /\ wk' = [wk EXCEPT ![w] = [@ EXCEPT !.pc = "backoff",
                                                       !.retry = retry,
                                                       !.sleep = WaitTime(retry)]]
                /\ UNCHANGED <<queue, unfinished>>
  /\ UNCHANGED <<readerVars, cancelVars, poolVars, createCalls, eventQueues,
                 rhTasks, cancelFlag, cancelledIds>>

\* create answered 421 TASK_QUEUE_MAXED: WAITING and task_waiting; below the
\* retry limit the worker sleeps, at the limit it puts the task back on the
\* queue with added_time 600 s ahead, calls task_done() and leaves the try
\* block through `continue`, which runs the finally block as well
CreateCapacity(w) ==
  /\ wk[w].pc = "create"
  /\ TotalHits < MaxHits
  /\ LET j == wk[w].job
         b == BatchOf(j)
         retry == wk[w].retry + 1
         st == [status EXCEPT ![j] = "WAITING"]
         waiting == Ev("task_waiting", j, retry, WaitTime(retry), MaxRetries, "")
     IN /\ capacityHits' = [capacityHits EXCEPT ![j] = @ + 1]
        /\ status' = st
        /\ IF retry >= MaxRetries
           THEN /\ queue' = Append(queue, [job |-> j, delayed |-> TRUE])
                /\ chan' = [chan EXCEPT ![b] = @ \o
                             <<waiting, Ev("task_requeued", j, 0, 0, 0, "")>> \o
                             FinallyEvents(b, st, TaskDone(unfinished + 1))]
                /\ unfinished' = TaskDone(TaskDone(unfinished + 1))
                /\ wk' = [wk EXCEPT ![w] = IdleWorker]
           ELSE /\ chan' = [chan EXCEPT ![b] = @ \o <<waiting>>]
                /\ wk' = [wk EXCEPT ![w] = [@ EXCEPT !.pc = "backoff",
                                                       !.retry = retry,
                                                       !.sleep = WaitTime(retry)]]
                /\ UNCHANGED <<queue, unfinished>>
  /\ UNCHANGED <<readerVars, cancelVars, poolVars, createCalls, eventQueues,
                 rhTasks, cancelFlag, cancelledIds>>

\* the backoff sleep is over: the retry loop calls create again
BackoffEnd(w) ==
  /\ wk[w].pc = "backoff"
  /\ wk' = [wk EXCEPT ![w] = [@ EXCEPT !.pc = "create", !.sleep = 0]]
  /\ createCalls' = [createCalls EXCEPT ![wk[w].job] = @ + 1]
  /\ UNCHANGED <<readerVars, cancelVars, poolVars, capacityHits, eventQueues,
                 chan, queue, unfinished, status, rhTasks, cancelFlag,
                 cancelledIds>>

\* a faulty acceptance that announces nothing; C9 tells it from the program's
CreateAcceptedSilent(w) ==
  /\ wk[w].pc = "create"
  /\ rhTasks' = [rhTasks EXCEPT ![BatchOf(wk[w].job)] = @ \cup {wk[w].job}]
  /\ wk' = [wk EXCEPT ![w] = [@ EXCEPT !.pc = "wait", !.polls = 0]]
  /\ UNCHANGED <<readerVars, cancelVars, poolVars, histVars, eventQueues, queue,
                 unfinished, status, cancelFlag, cancelledIds, chan>>

\* create returned a taskId: task_created, the id is recorded in the registry
\* entry and in global_runninghub_tasks, and the worker starts waiting
CreateAccepted(w) ==
  /\ wk[w].pc = "create"
  /\ LET j == wk[w].job
         b == BatchOf(j)
     IN /\ chan' = [chan EXCEPT ![b] = @ \o
                      <<Ev("task_created", j, 1, 0, 0, "")>>]
        /\ rhTasks' = [rhTasks EXCEPT ![b] = @ \cup {j}]
        /\ wk' = [wk EXCEPT ![w] = [@ EXCEPT !.pc = "wait", !.polls = 0]]
  /\ UNCHANGED <<readerVars, cancelVars, poolVars, histVars, eventQueues, queue,
                 unfinished, status, cancelFlag, cancelledIds>>

\* create returned no taskId (an error answer): task_created without an id,
\* no waiting, the result keeps its default status FAILED
CreateRejected(w) ==
  /\ wk[w].pc = "create"
  /\ CompleteJob(w, <<Ev("task_created", wk[w].job, 0, 0, 0, "")>>, "FAILED")
  /\ UNCHANGED <<readerVars, cancelVars, poolVars, histVars, eventQueues, queue,
                 rhTasks, cancelFlag, cancelledIds>>

\* an exception leaves the try block: ERROR and task_error
CreateRaises(w) ==
  /\ wk[w].pc = "create"
  /\ LET j == wk[w].job
     IN EndJob(w, [status EXCEPT ![j] = "ERROR"],
               <<Ev("task_error", j, 0, 0, 0, "")>>)
  /\ UNCHANGED <<readerVars, cancelVars, poolVars, histVars, eventQueues, queue,
                 rhTasks, cancelFlag, cancelledIds>>

\* a faulty round count that allows one more round than
\* MAX_STATUS_CHECK_ATTEMPTS; C28 tells it from the program's
WaitCheckLate(w) ==
  /\ wk[w].pc = "wait"
  /\ LET j == wk[w].job
         b == BatchOf(j)
     IN IF wk[w].polls > MaxStatusChecks
        THEN CompleteJob(w, << >>, "TIMEOUT") /\ UNCHANGED cancelledIds
        ELSE IF j \in cancelledIds \/ cancelFlag[b]
        THEN CompleteJob(w, << >>, "CANCELLED") /\ cancelledIds' = cancelledIds \cup {j}
        ELSE /\ wk' = [wk EXCEPT ![w] = [@ EXCEPT !.pc = "poll"]]
             /\ UNCHANGED <<chan, unfinished, status, cancelledIds>>
  /\ UNCHANGED <<readerVars, cancelVars, poolVars, histVars, eventQueues, queue,
                 rhTasks, cancelFlag>>

\* wait_for_task_completion, top of one round: TIMEOUT after the last round,
\* CANCELLED when the task id or the request is marked cancelled, else sleep
WaitCheck(w) ==
  /\ wk[w].pc = "wait"
  /\ LET j == wk[w].job
         b == BatchOf(j)
     IN IF wk[w].polls >= MaxStatusChecks
        THEN CompleteJob(w, << >>, "TIMEOUT") /\ UNCHANGED cancelledIds
        ELSE IF j \in cancelledIds \/ cancelFlag[b]
        THEN CompleteJob(w, << >>, "CANCELLED") /\ cancelledIds' = cancelledIds \cup {j}
        ELSE /\ wk' = [wk EXCEPT ![w] = [@ EXCEPT !.pc = "poll"]]
             /\ UNCHANGED <<chan, unfinished, status, cancelledIds>>
  /\ UNCHANGED <<readerVars, cancelVars, poolVars, histVars, eventQueues, queue,
                 rhTasks, cancelFlag>>

\* after the sleep: CANCELLED when the task id is in cancelled_task_ids, else
\* the status query goes out
PollWake(w) ==
  /\ wk[w].pc = "poll"
  /\ IF wk[w].job \in cancelledIds
     THEN CompleteJob(w, << >>, "CANCELLED")
     ELSE /\ wk' = [wk EXCEPT ![w] = [@ EXCEPT !.pc = "query"]]
          /\ UNCHANGED <<chan, unfinished, status>>
  /\ UNCHANGED <<readerVars, cancelVars, poolVars, histVars, eventQueues, queue,
                 rhTasks, cancelFlag, cancelledIds>>

\* the status query answered with a finished status
PollFinished(w, final) ==
  /\ wk[w].pc = "query"
  /\ CompleteJob(w, << >>, final)
  /\ UNCHANGED <<readerVars, cancelVars, poolVars, histVars, eventQueues, queue,
                 rhTasks, cancelFlag, cancelledIds>>

PollSucceeded(w) == PollFinished(w, "SUCCESS")

PollFailed(w) == PollFinished(w, "FAILED")

\* the status query answered 807 NOT_FOUND: taken as cancelled
PollNotFound(w) ==
  /\ wk[w].pc = "query"
  /\ CompleteJob(w, << >>, "CANCELLED")
  /\ cancelledIds' = cancelledIds \cup {wk[w].job}
  /\ UNCHANGED <<readerVars, cancelVars, poolVars, histVars, eventQueues, queue,
                 rhTasks, cancelFlag>>

\* the status query answered with an unfinished status, an invalid answer or
\* an error: next round
PollPending(w) ==
  /\ wk[w].pc = "query"
  /\ wk' = [wk EXCEPT ![w] = [@ EXCEPT !.pc = "wait", !.polls = @ + 1]]
  /\ UNCHANGED <<readerVars, cancelVars, poolVars, histVars, eventQueues, chan,
                 queue, unfinished, status, rhTasks, cancelFlag, cancelledIds>>

\* the clock reaches the added_time of a task that was put back
DelayElapses ==
  /\ \E i \in 1..Len(queue) :
       /\ queue[i].delayed
       /\ queue' = [queue EXCEPT ![i].delayed = FALSE]
  /\ UNCHANGED <<readerVars, cancelVars, poolVars, histVars, eventQueues, chan,
                 unfinished, status, rhTasks, cancelFlag, cancelledIds, wk>>

\* ------------------------------------------------- submit and the generator
\* event_generator, first stretch: the request id is made, the event queue is
\* registered and the first status event, which carries the id, is yielded
SubmitRegister(b) ==
  /\ readerPc[b] = "new"
  /\ readerPc' = [readerPc EXCEPT ![b] = "registered"]
  /\ eventQueues' = eventQueues \cup {b}
  /\ UNCHANGED <<totalTasks, autoDownload, requestMeta, rd, completeSent,
                 downloads, yielded, cancelVars, poolVars, histVars, chan, queue,
                 unfinished, status, rhTasks, cancelFlag, cancelledIds, wk>>

\* the prompt extraction raises, or the requested episode has no prompts: the
\* generator yields an error event and returns before its try/finally; the
\* event queue it registered stays in global_event_queues
SubmitFails(b) ==
  /\ readerPc[b] = "registered"
  /\ readerPc' = [readerPc EXCEPT ![b] = "done"]
  /\ UNCHANGED <<totalTasks, autoDownload, requestMeta, rd, completeSent,
                 downloads, yielded, cancelVars, poolVars, histVars, eventQueues,
                 chan, queue, unfinished, status, rhTasks, cancelFlag,
                 cancelledIds, wk>>

\* the request's tasks, in submission order
NewEntries(b, n) == [i \in 1..n |-> [job |-> <<b, i>>, delayed |-> FALSE]]

\* second stretch: every prompt is put on the global queue and entered as
\* QUEUED, ensure_global_worker_running, and the second status event
SubmitEnqueue(b, n, auto) ==
  /\ readerPc[b] = "registered"
  /\ readerPc' = [readerPc EXCEPT ![b] = "enqueued"]
  /\ totalTasks' = [totalTasks EXCEPT ![b] = n]
  /\ autoDownload' = [autoDownload EXCEPT ![b] = auto]
  /\ queue' = queue \o NewEntries(b, n)
  /\ unfinished' = unfinished + n
  /\ status' = [j \in JobIds |->
                  IF BatchOf(j) = b /\ j[2] <= n THEN "QUEUED" ELSE status[j]]
  /\ startTasks' = IF workerRunning THEN startTasks ELSE startTasks + 1
  /\ UNCHANGED <<requestMeta, rd, completeSent, downloads, yielded, cancelVars,
                 histVars, workerRunning, startRuns, spawned, eventQueues, chan,
                 rhTasks, cancelFlag, cancelledIds, wk>>

\* third stretch: the event queue is registered again if it is missing, the
\* metadata is stored, and the read loop starts
SubmitMeta(b) ==
  /\ readerPc[b] = "enqueued"
  /\ readerPc' = [readerPc EXCEPT ![b] = "reading"]
  /\ eventQueues' = eventQueues \cup {b}
  /\ requestMeta' = requestMeta \cup {b}
  /\ UNCHANGED <<totalTasks, autoDownload, rd, completeSent, downloads, yielded,
                 cancelVars, poolVars, histVars, chan, queue, unfinished, status,
                 rhTasks, cancelFlag, cancelledIds, wk>>

\* whether every download task of the generator is done
AllDownloadsDone(b) == downloads[b] = 0

\* the read loop took one event from the event queue and yielded it
ReaderRead(b) ==
  /\ readerPc[b] = "reading"
  /\ rd[b] < Len(chan[b])
  /\ LET e == chan[b][rd[b] + 1]
         final == e.type \in {"complete", "cancel_complete", "all_tasks_completed"}
         \* cancel_complete: a complete event of the generator's own
         onCancel == final /\ ~completeSent[b] /\ e.type = "cancel_complete"
         \* all_tasks_completed: complete once no download is outstanding
         onAll == final /\ ~completeSent[b] /\ e.type = "all_tasks_completed"
                        /\ AllDownloadsDone(b)
     IN /\ rd' = [rd EXCEPT ![b] = @ + 1]
        /\ yielded' = [yielded EXCEPT ![b] =
                         @ + (IF e.type = "complete" THEN 1 ELSE 0)
                           + (IF onCancel \/ onAll THEN 1 ELSE 0)]
        /\ completeSent' = [completeSent EXCEPT ![b] = @ \/ onCancel \/ onAll]
        \* only the complete event itself ends the loop
        /\ readerPc' = [readerPc EXCEPT ![b] =
                          IF e.type = "complete" THEN "closing" ELSE @]
        /\ downloads' = [downloads EXCEPT ![b] =
                          IF autoDownload[b] /\ e.type = "subtask_completed"
                          THEN @ + 1 ELSE @]
  /\ UNCHANGED <<totalTasks, autoDownload, requestMeta, cancelVars, poolVars,
                 histVars, eventQueues, chan, queue, unfinished, status, rhTasks,
                 cancelFlag, cancelledIds, wk>>

\* the idle check's verdict that every task of the request is finished
IdleAllDone(b) ==
  IF b \in requestMeta
  THEN Count(JobsOf(b) \cap Known(b, status), status, Finished) = totalTasks[b]
  ELSE LET tasks == Known(b, status)
           done == Count(tasks, status, Finished)
       IN tasks # {} /\ done > 0 /\ done = Cardinality(tasks)

\* no event for 0.5 s: when every task is COMPLETED or ERROR, every download
\* is done and no complete event was sent, yield complete and leave the loop
ReaderTimeout(b) ==
  /\ readerPc[b] = "reading"
  /\ rd[b] = Len(chan[b])
  /\ IdleAllDone(b) /\ AllDownloadsDone(b) /\ ~completeSent[b]
  /\ yielded' = [yielded EXCEPT ![b] = @ + 1]
  /\ completeSent' = [completeSent EXCEPT ![b] = TRUE]
  /\ readerPc' = [readerPc EXCEPT ![b] = "closing"]
  /\ UNCHANGED <<totalTasks, autoDownload, requestMeta, rd, downloads,
                 cancelVars, poolVars, histVars, eventQueues, chan, queue,
                 unfinished, status, rhTasks, cancelFlag, cancelledIds, wk>>

\* a faulty close that drops the request's cancel marker with its metadata;
\* C33 tells it from the program's
ReaderCloseClears(b) ==
  /\ readerPc[b] = "closing"
  /\ readerPc' = [readerPc EXCEPT ![b] = "done"]
  /\ eventQueues' = eventQueues \ {b}
  /\ requestMeta' = requestMeta \ {b}
  /\ cancelFlag' = [cancelFlag EXCEPT ![b] = FALSE]
  /\ yielded' = [yielded EXCEPT ![b] = @ + (IF completeSent[b] THEN 0 ELSE 1)]
  /\ UNCHANGED <<totalTasks, autoDownload, rd, completeSent, downloads,
                 cancelVars, poolVars, histVars, chan, queue, unfinished, status,
                 rhTasks, cancelledIds, wk>>

\* after the closing one-second sleep, the finally block: the event queue and
\* the metadata are removed; complete is yielded if none was sent
ReaderClose(b) ==
  /\ readerPc[b] = "closing"
  /\ readerPc' = [readerPc EXCEPT ![b] = "done"]
  /\ eventQueues' = eventQueues \ {b}
  /\ requestMeta' = requestMeta \ {b}
  /\ yielded' = [yielded EXCEPT ![b] = @ + (IF completeSent[b] THEN 0 ELSE 1)]
  /\ UNCHANGED <<totalTasks, autoDownload, rd, completeSent, downloads,
                 cancelVars, poolVars, histVars, chan, queue, unfinished, status,
                 rhTasks, cancelFlag, cancelledIds, wk>>

\* download_and_report_images ends: it puts image_download_complete on the
\* event queue it was given
DownloadDone(b) ==
  /\ downloads[b] > 0
  /\ downloads' = [downloads EXCEPT ![b] = @ - 1]
  /\ chan' = [chan EXCEPT ![b] = @ \o
                <<Ev("image_download_complete", NoJob, 0, 0, 0, "")>>]
  /\ UNCHANGED <<readerPc, totalTasks, autoDownload, requestMeta, rd,
                 completeSent, yielded, cancelVars, poolVars, histVars,
                 eventQueues, queue, unfinished, status, rhTasks, cancelFlag,
                 cancelledIds, wk>>

\* ------------------------------------------------------------ cancel route
\* a queue entry the sweep keeps: not a task to cancel, not of the request
Kept(e, b, tasks) == e.job \notin tasks /\ BatchOf(e.job) # b

KeptEntries(q, b, tasks) ==
  LET keep(e) == Kept(e, b, tasks) IN SelectSeq(q, keep)

\* the sweep takes every entry off the global queue (get, then task_done),
\* collects the kept ones in a temporary queue and puts them back.  When
\* task_done() raises, the handler around the sweep only logs it: the entries
\* taken so far are not put back
SweepQueue(q, u, b, tasks) ==
  IF u >= Len(q) THEN KeptEntries(q, b, tasks) ELSE SubSeq(q, u + 2, Len(q))

SweepUnfinished(q, u, b, tasks) ==
  IF u >= Len(q) THEN u - Len(q) + Len(KeptEntries(q, b, tasks)) ELSE 0

\* the tasks to cancel in registry order
TaskSeq(b, tasks) ==
  LET ids == [i \in 1..MaxJobs |-> <<b, i>>]
      in(j) == j \in tasks
  IN SelectSeq(ids, in)

CancelledEvents(b, tasks) ==
  [i \in 1..Len(TaskSeq(b, tasks)) |->
     Ev("task_cancelled", TaskSeq(b, tasks)[i], 0, 0, 0, "")]

\* after the remote calls, in one stretch: every task to cancel is written
\* CANCELLED and announced, the marker is set, the queue is swept, and
\* cancel_complete and complete go to the request of the cancelled tasks
CancelFinish(b, tasks) ==
  /\ status' = [j \in JobIds |-> IF j \in tasks THEN "CANCELLED" ELSE status[j]]
  /\ cancelFlag' = [cancelFlag EXCEPT ![b] = TRUE]
  /\ queue' = SweepQueue(queue, unfinished, b, tasks)
  /\ unfinished' = SweepUnfinished(queue, unfinished, b, tasks)
  /\ chan' = [chan EXCEPT ![b] =
                IF b \in eventQueues
                THEN @ \o CancelledEvents(b, tasks) \o
                     (IF tasks # {}
                      THEN <<Ev("cancel_complete", NoJob, Cardinality(tasks), 0, 0, ""),
                             Ev("complete", NoJob, 0, 0, 0, "")>>
                      ELSE << >>)
                ELSE @]

\* the ids the route cancels remotely: global_runninghub_tasks[request], the
\* marker of an earlier cancel among them
RemoteIds(b) == rhTasks[b] \cup (IF cancelFlag[b] THEN {Marker(b)} ELSE {})

\* the cancel route is called for a request whose id the caller has seen:
\* it collects the request's tasks and RunningHub ids; with no id to cancel
\* remotely it runs to its end without suspending
CancelStart(b) ==
  /\ cancelPc[b] = "idle"
  /\ cancelCalls[b] < MaxCancels
  /\ readerPc[b] # "new"
  /\ cancelCalls' = [cancelCalls EXCEPT ![b] = @ + 1]
  /\ queuedAtCancel' = [queuedAtCancel EXCEPT ![b] =
                           @ \cup {j \in Known(b, status) : status[j] = "QUEUED"}]
  /\ IF RemoteIds(b) = {}
     THEN /\ CancelFinish(b, Known(b, status))
          /\ UNCHANGED <<cancelPc, cancelTasks, cancelIds>>
     ELSE /\ cancelPc' = [cancelPc EXCEPT ![b] = "remote"]
          /\ cancelTasks' = [cancelTasks EXCEPT ![b] = Known(b, status)]
          /\ cancelIds' = [cancelIds EXCEPT ![b] = RemoteIds(b)]
          /\ UNCHANGED <<status, cancelFlag, queue, unfinished, chan>>
  /\ UNCHANGED <<readerVars, poolVars, histVars, eventQueues, rhTasks,
                 cancelledIds, wk>>

\* one remote cancel call returned: its id joins cancelled_task_ids; after
\* the last one the route runs to its end
CancelRemote(b) ==
  /\ cancelPc[b] = "remote"
  /\ \E id \in cancelIds[b] :
       /\ cancelledIds' = cancelledIds \cup {id}
       /\ IF cancelIds[b] = {id}
          THEN /\ CancelFinish(b, cancelTasks[b])
               /\ cancelPc' = [cancelPc EXCEPT ![b] = "idle"]
               /\ cancelTasks' = [cancelTasks EXCEPT ![b] = {}]
               /\ cancelIds' = [cancelIds EXCEPT ![b] = {}]
          ELSE /\ cancelIds' = [cancelIds EXCEPT ![b] = @ \ {id}]
               /\ UNCHANGED <<status, cancelFlag, queue, unfinished, chan,
                              cancelPc, cancelTasks>>
  /\ UNCHANGED <<readerVars, poolVars, histVars, eventQueues, rhTasks, wk,
                 cancelCalls, queuedAtCancel>>

\* ------------------------------------------------------------ specifications
WorkerStep(w) ==
  \/ DequeueDiscard(w)
  \/ DequeuePutBack(w)
  \/ DequeueCancelled(w)
  \/ DequeueStart(w)
  \/ CreateCapacity(w)
  \/ BackoffEnd(w)
  \/ CreateAccepted(w)
  \/ CreateRejected(w)
  \/ CreateRaises(w)
  \/ WaitCheck(w)
  \/ PollWake(w)
  \/ PollSucceeded(w)
  \/ PollFailed(w)
  \/ PollNotFound(w)
  \/ PollPending(w)

ReaderStep(b) ==
  \/ SubmitRegister(b)
  \/ SubmitFails(b)
  \/ \E n \in 0..MaxJobs, auto \in BOOLEAN : SubmitEnqueue(b, n, auto)
  \/ SubmitMeta(b)
  \/ ReaderRead(b)
  \/ ReaderTimeout(b)
  \/ ReaderClose(b)
  \/ DownloadDone(b)

CancelStep(b) == CancelStart(b) \/ CancelRemote(b)

Next ==
  \/ StartGlobalWorker
  \/ DelayElapses
  \/ \E w \in Workers : WorkerStep(w)
  \/ \E b \in Batches : ReaderStep(b)
  \/ \E b \in Batches : CancelStep(b)

Spec == Init /\ [][Next]_vars

\* ----------------------------------------------------------------- scenarios
\* The scenarios below restrict what the callers and the provider do; the
\* program's own steps are the same actions throughout.
Reading(b) ==
  \/ SubmitRegister(b)
  \/ SubmitMeta(b)
  \/ ReaderRead(b)
  \/ ReaderTimeout(b)
  \/ ReaderClose(b)

\* the provider accepts every create call and every task succeeds
Succeeding(w) ==
  \/ DequeueStart(w)
  \/ CreateAccepted(w)
  \/ WaitCheck(w)
  \/ PollWake(w)
  \/ PollSucceeded(w)

\* one request of at least one task, no cancel call, a succeeding provider
NextSuccess ==
  \/ StartGlobalWorker
  \/ \E w \in Workers : Succeeding(w)
  \/ Reading(1)
  \/ \E n \in 1..MaxJobs, auto \in BOOLEAN : SubmitEnqueue(1, n, auto)
  \/ DownloadDone(1)

SpecSuccess == Init /\ [][NextSuccess]_vars

\* the same request, whose prompt extraction may also fail
NextExit == NextSuccess \/ SubmitFails(1)

SpecExit == Init /\ [][NextExit]_vars

\* the same under the scheduling of the event loop: a coroutine that can run
\* does run, and the provider answers every call
FairSuccess ==
  /\ SpecSuccess
  /\ WF_vars(StartGlobalWorker)
  /\ \A w \in Workers : WF_vars(Succeeding(w))
  /\ WF_vars(Reading(1))
  /\ WF_vars(\E n \in 1..MaxJobs, auto \in BOOLEAN : SubmitEnqueue(1, n, auto))
  /\ WF_vars(DownloadDone(1))

\* every way a worker takes a task off the global queue
Taking(w) ==
  \/ DequeueDiscard(w)
  \/ DequeuePutBack(w)
  \/ DequeueCancelled(w)
  \/ DequeueStart(w)

\* the provider may also answer that its queue is full
Retrying(w) == CreateCapacity(w) \/ BackoffEnd(w)

\* one request of one task, no cancel call; the provider accepts or is full,
\* and accepted tasks succeed
NextRetry ==
  \/ StartGlobalWorker
  \/ DelayElapses
  \/ \E w \in Workers : DequeuePutBack(w) \/ Retrying(w) \/ Succeeding(w)
  \/ Reading(1)
  \/ SubmitEnqueue(1, 1, FALSE)

SpecRetry == Init /\ [][NextRetry]_vars

\* one request whose caller may call the cancel route at any time and more
\* than once; the provider accepts every call and accepted tasks succeed
NextCancel ==
  \/ StartGlobalWorker
  \/ \E w \in Workers : DequeueCancelled(w) \/ Succeeding(w)
  \/ Reading(1)
  \/ \E n \in 0..MaxJobs : SubmitEnqueue(1, n, FALSE)
  \/ CancelStep(1)

SpecCancel == Init /\ [][NextCancel]_vars

\* a first cancel call
CancelOnce(b) == cancelCalls[b] = 0 /\ CancelStart(b)

\* one request whose caller may call the cancel route once, at any time; the
\* provider accepts or is full, and accepted tasks succeed
NextCancelRetry ==
  \/ StartGlobalWorker
  \/ DelayElapses
  \/ \E w \in Workers : Taking(w) \/ Retrying(w) \/ Succeeding(w)
  \/ Reading(1)
  \/ \E n \in 0..MaxJobs : SubmitEnqueue(1, n, FALSE)
  \/ CancelOnce(1)
  \/ CancelRemote(1)

SpecCancelRetry == Init /\ [][NextCancelRetry]_vars

\* two requests of one task each share the queue and the pool; the caller of
\* request 1 may cancel it once; the provider accepts or is full, and accepted
\* tasks succeed
NextShared ==
  \/ StartGlobalWorker
  \/ DelayElapses
  \/ \E w \in Workers : Taking(w) \/ Retrying(w) \/ Succeeding(w)
  \/ \E b \in Batches : Reading(b) \/ SubmitEnqueue(b, 1, FALSE)
  \/ CancelOnce(1)
  \/ CancelRemote(1)

SpecShared == Init /\ [][NextShared]_vars

\* the cancel scenario under the scheduling of the event loop: a coroutine
\* that can run does run and the provider answers every call; whether and
\* when the caller calls the cancel route is the caller's choice
FairCancel ==
  /\ SpecCancel
  /\ WF_vars(StartGlobalWorker)
  /\ \A w \in Workers : WF_vars(DequeueCancelled(w) \/ Succeeding(w))
  /\ WF_vars(Reading(1))
  /\ WF_vars(\E n \in 0..MaxJobs : SubmitEnqueue(1, n, FALSE))
  /\ WF_vars(CancelRemote(1))

\* the provider may also reject a create call, the handling may raise, and an
\* accepted task may fail, vanish, or stay unfinished until the wait times out
Failing(w) ==
  \/ CreateRejected(w)
  \/ CreateRaises(w)
  \/ PollFailed(w)
  \/ PollNotFound(w)
  \/ PollPending(w)

\* one request of at least one task, no cancel call; the provider may answer
\* in every way
NextOutcome ==
  \/ StartGlobalWorker
  \/ DelayElapses
  \/ \E w \in Workers :
       DequeuePutBack(w) \/ Retrying(w) \/ Succeeding(w) \/ Failing(w)
  \/ Reading(1)
  \/ \E n \in 1..MaxJobs : SubmitEnqueue(1, n, FALSE)

SpecOutcome == Init /\ [][NextOutcome]_vars

\* one request of at least one task whose caller may cancel it once; the
\* provider accepts every create call, and an accepted task may succeed, fail,
\* vanish, or stay unfinished until the wait times out
NextWait ==
  \/ StartGlobalWorker
  \/ \E w \in Workers :
       \/ DequeueCancelled(w) \/ Succeeding(w)
       \/ PollFailed(w) \/ PollNotFound(w) \/ PollPending(w)
  \/ Reading(1)
  \/ \E n \in 1..MaxJobs, auto \in BOOLEAN : SubmitEnqueue(1, n, auto)
  \/ DownloadDone(1)
  \/ CancelOnce(1)
  \/ CancelRemote(1)

SpecWait == Init /\ [][NextWait]_vars

\* a request of two tasks and a request of one share the queue and the pool,
\* no cancel call; the caller of the second request stops reading its stream
\* once its task is on the queue; the provider accepts or is full, and accepted
\* tasks succeed
NextBackoff ==
  \/ StartGlobalWorker
  \/ DelayElapses
  \/ \E w \in Workers : DequeuePutBack(w) \/ Retrying(w) \/ Succeeding(w)
  \/ Reading(1)
  \/ SubmitRegister(2)
  \/ SubmitEnqueue(1, MaxJobs, FALSE)
  \/ SubmitEnqueue(2, 1, FALSE)

SpecBackoff == Init /\ [][NextBackoff]_vars

\* ------------------------------------------------------------------- claims
AllFinished(b) == \A j \in JobsOf(b) : status[j] \in Finished

\* C1: a request of n >= 1 tasks that is never cancelled and whose tasks all
\* reach COMPLETED or ERROR has a generator whose read loop ends: once every
\* task is finished the generator eventually reaches its end.
C1_DrainTerminates ==
  \A b \in Batches :
    (readerPc[b] = "reading" /\ totalTasks[b] >= 1 /\ AllFinished(b)
       /\ cancelCalls[b] = 0)
      ~> (readerPc[b] = "done")

\* ---- helpers of the claims
Terminal == {"COMPLETED", "ERROR", "CANCELLED"}

\* the events of the given types on the request's event queue, in order
Events(b, types) ==
  LET wanted(e) == e.type \in types IN SelectSeq(chan[b], wanted)

CountEv(b, t) == Len(Events(b, {t}))

\* the step belongs to a run of the cancel route for request b
IsCancelStep(b) ==
  <<cancelPc[b], cancelIds[b], cancelCalls[b]>>' #
    <<cancelPc[b], cancelIds[b], cancelCalls[b]>>

\* the global queue's entries of request b, in queue order
QueueOf(q, b) == LET own(e) == BatchOf(e.job) = b IN SelectSeq(q, own)

\* C2: once the generator has yielded a complete event, every task of the
\* request is COMPLETED, ERROR or CANCELLED, and stays so.
C2_TerminalAccounting ==
  \A b \in Batches :
    yielded[b] > 0 => \A j \in JobsOf(b) : status[j] \in Terminal

\* C3: over the whole run the workers put at most one all_tasks_completed
\* event on a request's event queue, whatever the interleaving of the workers.
C3_SingleAllTasksCompleted ==
  \A b \in Batches : CountEv(b, "all_tasks_completed") <= 1

\* C3's case: two workers finished the request's two tasks and the event is
\* on the queue
C3_Witness ==
  /\ totalTasks[1] = 2
  /\ \A j \in JobsOf(1) : status[j] = "COMPLETED"
  /\ \A w \in Workers : wk[w].pc = "idle"
  /\ cancelCalls[1] = 0
  /\ CountEv(1, "all_tasks_completed") = 1
  /\ CountEv(1, "task_waiting") >= 1

\* C4: a step of the cancel route for request b leaves every other request's
\* task statuses, queue entries (set and order), event queue contents and
\* cancel marker as they were.
C4_CancelIsolation ==
  [][\A b \in Batches :
       IsCancelStep(b) =>
         \A c \in Batches \ {b} :
           /\ \A j \in JobIds : BatchOf(j) = c => status'[j] = status[j]
           /\ QueueOf(queue', c) = QueueOf(queue, c)
           /\ chan'[c] = chan[c]
           /\ cancelFlag'[c] = cancelFlag[c]]_vars

\* C5: a task that was QUEUED when the cancel route was called for its
\* request is never PROCESSING afterwards.
C5_QueuedNeverProcessing ==
  \A b \in Batches : \A j \in queuedAtCancel[b] : status[j] # "PROCESSING"

\* C6: once the cancel route has been called for a request whose id the
\* caller has seen, the request's generator eventually reaches its end.
C6_CancelUnblocksReader ==
  \A b \in Batches : (cancelCalls[b] > 0) ~> (readerPc[b] = "done")

\* C7: while a request carries the cancel marker no worker calls
\* call_runninghub_workflow for any of its tasks.
C7_NoCreateAfterCancel ==
  [][\A j \in JobIds :
       cancelFlag[BatchOf(j)] => createCalls'[j] = createCalls[j]]_vars

\* C8: a run of the cancel route for a request that already carries the
\* cancel marker changes no task status of the request, nor the global queue,
\* nor the marker: a second call adds nothing to the first.
C8_CancelIdempotent ==
  [][\A b \in Batches :
       (cancelFlag[b] /\ IsCancelStep(b)) =>
         /\ \A j \in JobIds : BatchOf(j) = b => status'[j] = status[j]
         /\ queue' = queue
         /\ cancelFlag'[b] = cancelFlag[b]]_vars

\* the progress events of the request
Progress(b) == Events(b, {"progress"})

\* the positions of the events of one type on the request's event queue
Positions(b, t) == {i \in 1..Len(chan[b]) : chan[b][i].type = t}

\* C9: with a provider that accepts and succeeds and no cancel call, a
\* request never has more task_created or subtask_completed events than
\* tasks, and once all its n >= 1 tasks are COMPLETED its event queue holds
\* exactly n task_created, exactly n successful subtask_completed, a last
\* progress event of n/n, and after it exactly one all_tasks_completed.
C9_AllSuccess ==
  \A b \in Batches :
    LET n == totalTasks[b] IN
      /\ CountEv(b, "task_created") <= n
      /\ CountEv(b, "subtask_completed") <= n
      /\ (n >= 1 /\ \A j \in JobsOf(b) : status[j] = "COMPLETED") =>
           /\ CountEv(b, "task_created") = n
           /\ CountEv(b, "subtask_completed") = n
           /\ \A i \in Positions(b, "subtask_completed") : chan[b][i].res = "SUCCESS"
           /\ Progress(b) # << >>
           /\ Progress(b)[Len(Progress(b))].x = n
           /\ Progress(b)[Len(Progress(b))].y = n
           /\ CountEv(b, "all_tasks_completed") = 1
           /\ \A i \in Positions(b, "all_tasks_completed") :
                \A k \in Positions(b, "progress") : k < i

\* C9's case: two workers completed a request of two tasks
C9_Witness ==
  /\ totalTasks[1] = 2
  /\ \A j \in JobsOf(1) : status[j] = "COMPLETED"
  /\ CountEv(1, "subtask_completed") = 2
  /\ \E w1, w2 \in Workers : w1 # w2 /\ wk[w1].pc = "idle" /\ wk[w2].pc = "idle"

\* the waiting, created and completed events of the request, in order
Lifecycle(b) == Events(b, {"task_waiting", "task_created", "subtask_completed"})

\* C10: a request of one task whose create call was answered "queue full" m
\* times, 1 <= m < max_retries, and then accepted, the task succeeding: the
\* event queue holds exactly m task_waiting events with strictly increasing
\* wait_time, then one task_created, then one subtask_completed.
C10_CapacityScenario ==
  LET j == <<1, 1>>
      m == capacityHits[j]
      s == Lifecycle(1)
  IN (totalTasks[1] = 1 /\ status[j] = "COMPLETED" /\ m >= 1 /\ m < MaxRetries) =>
       /\ Len(s) = m + 2
       /\ \A i \in 1..m : s[i].type = "task_waiting" /\ s[i].x = i
       /\ \A i \in 1..(m - 1) : s[i].y < s[i + 1].y
       /\ s[m + 1].type = "task_created"
       /\ s[m + 2].type = "subtask_completed"
       /\ s[m + 2].res = "SUCCESS"

\* C10's case: two "queue full" answers, then accepted and completed
C10_Witness ==
  /\ totalTasks[1] = 1
  /\ status[<<1, 1>>] = "COMPLETED"
  /\ capacityHits[<<1, 1>>] = 2
  /\ CountEv(1, "task_waiting") = 2

\* C11: a request of n >= 1 tasks for which the cancel route was called while
\* all n were still QUEUED never has a create call for any of its tasks, and
\* once the route has set the marker its event queue holds exactly n
\* task_cancelled events.
C11_CancelBeforeDequeue ==
  \A b \in Batches :
    (totalTasks[b] >= 1 /\ queuedAtCancel[b] = JobsOf(b)) =>
      /\ \A j \in JobsOf(b) : createCalls[j] = 0
      /\ cancelFlag[b] /\ cancelPc[b] = "idle" =>
           CountEv(b, "task_cancelled") = totalTasks[b]

\* the worker that holds the task, if any
Holders(j) == {w \in Workers : wk[w].job = j}

\* C12: a task whose create call was answered "queue full" m < max_retries
\* times and then accepted carries retry_count = m while its worker waits for
\* it, and once the worker has let go of it its status is COMPLETED or ERROR,
\* not WAITING.
C12_AcceptedAfterWaiting ==
  \A j \in JobIds :
    (j \in rhTasks[BatchOf(j)] /\ capacityHits[j] < MaxRetries) =>
      /\ \A w \in Holders(j) : wk[w].retry = capacityHits[j]
      /\ Holders(j) = {} => status[j] \in Finished

\* C12's case: two "queue full" answers, acceptance, and the task handled
C12_Witness ==
  \E j \in JobIds :
    /\ j \in rhTasks[BatchOf(j)]
    /\ capacityHits[j] = 2
    /\ Holders(j) = {}
    /\ status[j] \in Finished

\* C13: the create answer that brings retry_count to max_retries does not
\* fail the task: in that step the task is put on the global queue once, with
\* its added_time ahead, its status is WAITING, task_requeued is announced and
\* no task_error, and the worker is free again.
C13_RequeueAtLimit ==
  [][\A w \in Workers :
       (/\ wk[w].pc = "create"
        /\ wk[w].retry + 1 >= MaxRetries
        /\ capacityHits'[wk[w].job] = capacityHits[wk[w].job] + 1) =>
         LET j == wk[w].job
             b == BatchOf(j)
         IN /\ queue' = Append(queue, [job |-> j, delayed |-> TRUE])
            /\ Len(QueueOf(queue', b)) = Len(QueueOf(queue, b)) + 1
            /\ status'[j] = "WAITING"
            /\ Len(SelectSeq(chan'[b], LAMBDA e : e.type = "task_error")) =
                 CountEv(b, "task_error")
            /\ Len(SelectSeq(chan'[b], LAMBDA e : e.type = "task_requeued")) =
                 CountEv(b, "task_requeued") + 1
            /\ wk'[w] = IdleWorker]_vars

\* C13's case: a task was put back after max_retries "queue full" answers
C13_Witness ==
  \E j \in JobIds :
    /\ capacityHits[j] = MaxRetries
    /\ \E i \in 1..Len(queue) : queue[i] = [job |-> j, delayed |-> TRUE]
    /\ status[j] = "WAITING"
    /\ CountEv(BatchOf(j), "task_requeued") = 1

\* the request was never cancelled, the provider accepted every create call
\* for its tasks at once and all of them succeeded
AllSucceeded(b) ==
  /\ totalTasks[b] >= 1
  /\ cancelCalls[b] = 0
  /\ \A j \in JobsOf(b) : status[j] = "COMPLETED" /\ capacityHits[j] = 0
  /\ \A i \in Positions(b, "subtask_completed") : chan[b][i].res = "SUCCESS"

\* C14: whatever happens to the other requests' tasks, a request that was not
\* cancelled and whose n tasks were all accepted and succeeded has a progress
\* event for each completion, a last progress event of n/n and its
\* all_tasks_completed event.
C14_CrossBatchIsolation ==
  \A b \in Batches :
    AllSucceeded(b) =>
      /\ Len(Progress(b)) >= totalTasks[b]
      /\ Progress(b)[Len(Progress(b))].x = totalTasks[b]
      /\ Progress(b)[Len(Progress(b))].y = totalTasks[b]
      /\ CountEv(b, "all_tasks_completed") = 1

\* the worker coroutines that are inside a task's handling
Busy == {w \in Workers : wk[w].pc \notin {"off", "idle"}}

\* C15: however many start_global_worker tasks the requests create and run,
\* at most MAX_CONCURRENT_TASKS worker coroutines are ever created, exactly
\* that many exist once the pool runs, none before, and so at most that many
\* provider calls are outstanding.
C15_FixedPool ==
  /\ spawned <= NumWorkers
  /\ workerRunning => spawned = NumWorkers
  /\ ~workerRunning => spawned = 0 /\ \A w \in Workers : wk[w].pc = "off"
  /\ Cardinality(Busy) <= spawned

\* C15's case: two requests each created a start task before the pool ran,
\* both start tasks have run, and every worker is at work
C15_Witness ==
  /\ startRuns = 2
  /\ workerRunning
  /\ Cardinality(Busy) = NumWorkers

\* C16: a request whose prompt list turned out empty is refused: no metadata
\* is registered for it, no start task is created for it, nothing is put on
\* the global queue and the generator yields no complete event.
C16_EmptyRejected ==
  \A b \in Batches :
    (readerPc[b] \notin {"new", "registered"} /\ totalTasks[b] = 0) =>
      /\ b \notin requestMeta
      /\ yielded[b] = 0
      /\ QueueOf(queue, b) = << >>

\* the worker leaves the handling of its task in this step
LeavesTask(w) == wk[w].pc \notin {"off", "idle"} /\ wk'[w].pc = "idle"

\* an exception was raised in the handling the worker leaves: one that the
\* except block announced with task_error, or the ValueError of task_done()
\* in the finally block
RaisedIn(w) ==
  /\ LeavesTask(w)
  /\ \/ unfinished' = unfinished
     \/ Len(SelectSeq(chan'[BatchOf(wk[w].job)], LAMBDA e : e.type = "task_error"))
          > CountEv(BatchOf(wk[w].job), "task_error")

\* C17: a worker coroutine never ends, and a handling in which an exception
\* was raised leaves its task ERROR and the worker ready for the next task.
C17_WorkerResilience ==
  [][\A w \in Workers :
       /\ wk[w].pc # "off" => wk'[w].pc # "off"
       /\ RaisedIn(w) => status'[wk[w].job] = "ERROR" /\ wk'[w] = IdleWorker]_vars

\* C18: a task status that is COMPLETED, ERROR or CANCELLED is never written
\* again with another value, by a worker or by the cancel route.
C18_TerminalWriteOnce ==
  [][\A j \in JobIds : status[j] \in Terminal => status'[j] = status[j]]_vars

\* the subtask_completed events of an accepted task
CompletedEvents(j) ==
  {i \in Positions(BatchOf(j), "subtask_completed") : chan[BatchOf(j)][i].job = j}

\* C19: an accepted task whose wait ended FAILED or TIMEOUT is not announced
\* with subtask_completed and its status is ERROR.
C19_FailureIsError ==
  \A j \in JobIds :
    j \in rhTasks[BatchOf(j)] =>
      \A i \in CompletedEvents(j) :
        chan[BatchOf(j)][i].res \notin {"FAILED", "TIMEOUT"}

\* the progress events among the given events
ProgressOf(events) == SelectSeq(events, LAMBDA e : e.type = "progress")

\* C20: the completed count of every progress event is the number of the
\* request's tasks that are COMPLETED, ERROR or CANCELLED when it is put on
\* the event queue.
C20_ProgressCountsTerminal ==
  [][\A b \in Batches :
       Len(ProgressOf(chan'[b])) > Len(ProgressOf(chan[b])) =>
         ProgressOf(chan'[b])[Len(ProgressOf(chan'[b]))].x =
           Cardinality({j \in JobsOf(b) : status'[j] \in Terminal})]_vars

\* C21: over the whole life of a request's generator the caller is sent the
\* stream-ending complete event at most once, and exactly once by the time the
\* generator has ended
C21_OneComplete ==
  \A b \in Batches :
    /\ yielded[b] <= 1
    /\ readerPc[b] = "done" => yielded[b] = 1

\* the all_tasks_completed events among the given events
AllDoneOf(events) ==
  SelectSeq(events, LAMBDA e : e.type = "all_tasks_completed")

\* a worker ends the handling of a task of request b in this step: it leaves
\* the task it held, or it marks a task it has just dequeued CANCELLED
WorkerEnds(b) ==
  \/ \E w \in Workers : LeavesTask(w) /\ BatchOf(wk[w].job) = b
  \/ /\ ~IsCancelStep(b)
     /\ \E j \in JobsOf(b) : status[j] \notin Terminal /\ status'[j] = "CANCELLED"

\* C22: when a worker ends the handling of a task and every task of the
\* request is then COMPLETED, ERROR or CANCELLED, that step puts
\* all_tasks_completed on the request's event queue.
C22_AllDoneAnnounced ==
  [][\A b \in Batches :
       (WorkerEnds(b) /\ \A j \in JobsOf(b) : status'[j] \in Terminal) =>
         Len(AllDoneOf(chan'[b])) = Len(AllDoneOf(chan[b])) + 1]_vars

\* the entries of the global queue that carry task j
EntriesOf(j) == {i \in 1..Len(queue) : queue[i].job = j}

\* C23: a task id occurs at most once among the entries of the global queue
\* and the tasks the workers hold; put-back, requeue and the cancel route's
\* sweep keep it so.
C23_SingleHolder ==
  \A j \in JobIds : Cardinality(EntriesOf(j)) + Cardinality(Holders(j)) <= 1

\* a requeued task of request 2 is back on the queue after the sweep of
\* request 1's cancel, while a worker holds another task
C23_Witness ==
  /\ cancelFlag[1]
  /\ \E i \in 1..Len(queue) : queue[i].delayed /\ BatchOf(queue[i].job) = 2
  /\ \E w \in Workers : wk[w].job # NoJob

\* the events that end a task: subtask_completed, task_error, task_cancelled
TerminalEvents == {"subtask_completed", "task_error", "task_cancelled"}

\* the positions of the events about task j on its request's event queue
EventsAbout(j) == {i \in 1..Len(chan[BatchOf(j)]) : chan[BatchOf(j)][i].job = j}

\* C24: the event queue carries at most one terminal event per task, and no
\* event about a task after its terminal event, whether the worker or the
\* cancel route ended the task.
C24_OneTerminalEvent ==
  \A j \in JobIds :
    \A i \in EventsAbout(j) :
      chan[BatchOf(j)][i].type \in TerminalEvents =>
        \A k \in EventsAbout(j) : k <= i

\* wait_for_task_completion returns CANCELLED in this step: the worker leaves
\* its task at one of the two cancellation checks
WaitReturnsCancelled(w) ==
  /\ LeavesTask(w)
  /\ \/ wk[w].pc = "wait" /\ wk[w].polls < MaxStatusChecks
     \/ wk[w].pc = "poll"

\* C25: when the wait for an accepted task returns CANCELLED, the task's
\* status is CANCELLED afterwards and the step puts no subtask_completed on the
\* event queue.
C25_CancelledWaitIsCancelled ==
  [][\A w \in Workers :
       WaitReturnsCancelled(w) =>
         /\ status'[wk[w].job] = "CANCELLED"
         /\ \A i \in 1..Len(chan'[BatchOf(wk[w].job)]) :
              i > Len(chan[BatchOf(wk[w].job)]) =>
                chan'[BatchOf(wk[w].job)][i].type # "subtask_completed"]_vars

\* a worker takes the task at the head of the global queue in this step and
\* finds its request marked cancelled
DequeuesCancelled ==
  /\ queue # << >>
  /\ queue' = Tail(queue)
  /\ ~Head(queue).delayed
  /\ BatchOf(Head(queue).job) \in eventQueues
  /\ cancelFlag[BatchOf(Head(queue).job)]
  /\ \A b \in Batches : ~IsCancelStep(b)

\* the events the step puts on request b's event queue
NewEvents(b) == SubSeq(chan'[b], Len(chan[b]) + 1, Len(chan'[b]))

\* C26: a task dequeued for a request that is already cancelled goes to
\* CANCELLED without a PROCESSING announcement; the step puts one
\* task_cancelled and a progress event, makes no create call and leaves the
\* worker ready for the next task.
C26_DequeueOfCancelled ==
  [][DequeuesCancelled =>
       LET j == Head(queue).job
           new == NewEvents(BatchOf(j))
       IN /\ status'[j] = "CANCELLED"
          /\ \A i \in 1..Len(new) : new[i].res # "PROCESSING"
          /\ Len(SelectSeq(new, LAMBDA e : e.type = "task_cancelled" /\ e.job = j)) = 1
          /\ ProgressOf(new) # << >>
          /\ createCalls' = createCalls
          /\ \A w \in Workers : wk[w].pc = "idle" => wk'[w].pc = "idle"]_vars

\* the worker is at one of the cancellation checks of wait_for_task_completion:
\* the one at the top of a round or the one after the sleep
AtCancelCheck(w) ==
  \/ wk[w].pc = "wait" /\ wk[w].polls < MaxStatusChecks
  \/ wk[w].pc = "poll"

\* C27: a wait that passes a cancellation check while its request carries the
\* cancel marker returns CANCELLED at that check; it does not go on to query
\* the provider, whether or not the cancel route knew the task's provider id.
C27_WaitObservesCancel ==
  [][\A w \in Workers :
       (AtCancelCheck(w) /\ cancelFlag[BatchOf(wk[w].job)] /\ wk'[w] # wk[w]) =>
         LeavesTask(w)]_vars

\* the worker is inside wait_for_task_completion
InWait(w) == wk[w].pc \in {"wait", "poll", "query"}

\* the outcomes of wait_for_task_completion in the model
WaitOutcomes == {"SUCCESS", "FAILED", "CANCELLED", "TIMEOUT"}

\* C28: a wait polls the provider at most MAX_STATUS_CHECK_ATTEMPTS times and
\* returns one outcome: a finished status from a status query, CANCELLED
\* from a cancellation check or a NOT_FOUND answer, or TIMEOUT, the last
\* exactly when all the rounds passed with neither.
C28_WaitOutcome ==
  /\ [](\A w \in Workers :
          /\ InWait(w) => wk[w].polls <= MaxStatusChecks
          /\ wk[w].pc \in {"poll", "query"} => wk[w].polls < MaxStatusChecks)
  /\ [][\A w \in Workers :
          (InWait(w) /\ LeavesTask(w)) =>
            LET j == wk[w].job
                done == SelectSeq(NewEvents(BatchOf(j)),
                                  LAMBDA e : e.type = "subtask_completed" /\ e.job = j)
            IN /\ Len(done) = 1
               /\ done[1].res \in WaitOutcomes
               /\ done[1].res = "TIMEOUT" <=>
                    (wk[w].pc = "wait" /\ wk[w].polls = MaxStatusChecks)
               /\ done[1].res = "CANCELLED" =>
                    \/ wk[w].pc = "query"
                    \/ /\ AtCancelCheck(w)
                       /\ j \in cancelledIds \/ cancelFlag[BatchOf(j)]
               /\ done[1].res \in {"SUCCESS", "FAILED"} => wk[w].pc = "query"]_vars

\* one wait of the request has timed out and another has returned CANCELLED
\* after the request was cancelled
C28_Witness ==
  /\ cancelFlag[1]
  /\ \E i, k \in Positions(1, "subtask_completed") :
       chan[1][i].res = "TIMEOUT" /\ chan[1][k].res = "CANCELLED"

\* task j has an entry on the global queue whose added_time is still ahead
Deferred(j) == \E i \in EntriesOf(j) : queue[i].delayed

NewWaiting(w) ==
  SelectSeq(NewEvents(BatchOf(wk[w].job)),
            LAMBDA e : e.type = "task_waiting" /\ e.job = wk[w].job)

\* the announced delays do not decrease with the retry count
DelayMonotone ==
  \A b \in Batches :
    \A i, k \in Positions(b, "task_waiting") :
      chan[b][i].x <= chan[b][k].x => chan[b][i].y <= chan[b][k].y

\* C30 as stated: every "queue full" answer with resulting retry count a
\* announces the delay min(30 * a, 300) with 1 <= a <= max_retries, the
\* worker sleeps that long before the next create call, and the delay does
\* not decrease with a.
C30_BackoffAlways ==
  /\ []DelayMonotone
  /\ [][\A w \in Workers : wk[w].pc = "create" =>
          \A i \in 1..Len(NewWaiting(w)) :
            LET e == NewWaiting(w)[i]
            IN /\ 1 <= e.x /\ e.x <= MaxRetries
               /\ e.y = Min(RetryDelay * e.x, MaxWait)
               /\ wk'[w].pc = "backoff" /\ wk'[w].sleep = e.y]_vars

\* C30, amended: the announced delay is min(30 * a, 300) with
\* 1 <= a <= max_retries and does not decrease with a; below the retry limit
\* the worker sleeps that long before the next create call, at the limit it
\* does not sleep and the task goes back on the queue deferred.
C30_BackoffBelowLimit ==
  /\ []DelayMonotone
  /\ [][\A w \in Workers : wk[w].pc = "create" =>
          \A i \in 1..Len(NewWaiting(w)) :
            LET e == NewWaiting(w)[i]
            IN /\ 1 <= e.x /\ e.x <= MaxRetries
               /\ e.y = Min(RetryDelay * e.x, MaxWait)
               /\ IF e.x < MaxRetries
                  THEN wk'[w].pc = "backoff" /\ wk'[w].sleep = e.y
                  ELSE /\ wk'[w] = IdleWorker
                       /\ \E k \in 1..Len(queue') :
                            queue'[k].job = wk[w].job /\ queue'[k].delayed]_vars

\* a worker sleeps off the delay announced for the last retry below the limit
C30_Witness ==
  \E w \in Workers :
    /\ wk[w].pc = "backoff"
    /\ wk[w].retry = MaxRetries - 1
    /\ wk[w].sleep = RetryDelay * (MaxRetries - 1)
    /\ \E i \in Positions(BatchOf(wk[w].job), "task_waiting") :
         /\ chan[BatchOf(wk[w].job)][i].x = wk[w].retry
         /\ chan[BatchOf(wk[w].job)][i].y = wk[w].sleep

\* every worker of the pool is in the backoff sleep of its task
AllInBackoff == \A w \in Workers : wk[w].pc = "backoff"

\* C31: tasks in "queue full" backoff do not keep the pool from the ready
\* tasks on the global queue: a ready task is never at the head of the queue
\* while every worker sits in a backoff sleep.
C31_BackoffFreesWorker ==
  ~(AllInBackoff /\ queue # << >> /\ ~Head(queue).delayed)

\* worker w puts its task back on the queue at the retry limit in this step
Requeues(w) ==
  /\ wk[w].pc = "create"
  /\ LeavesTask(w)
  /\ \E k \in 1..Len(queue') : queue'[k].job = wk[w].job /\ queue'[k].delayed

\* C32: the step that requeues a task at the retry limit leaves its status
\* WAITING and puts neither a progress nor an all_tasks_completed event on the
\* event queue.
C32_NoProgressOnRequeue ==
  [][\A w \in Workers :
       Requeues(w) =>
         /\ status'[wk[w].job] = "WAITING"
         /\ \A i \in 1..Len(NewEvents(BatchOf(wk[w].job))) :
              NewEvents(BatchOf(wk[w].job))[i].type
                \notin {"progress", "all_tasks_completed"}]_vars

\* C33: a request's cancel marker, once set, stays set; while the request's
\* metadata is registered its total_tasks is the number of its task ids, the
\* ids are those of the tasks that were put on the queue, and the total does
\* not change.
C33_BatchRecordStable ==
  /\ [](\A b \in requestMeta :
          /\ totalTasks[b] = Cardinality(JobsOf(b))
          /\ JobsOf(b) = Known(b, status))
  /\ [][\A b \in Batches :
          /\ cancelFlag[b] => cancelFlag'[b]
          /\ (b \in requestMeta /\ b \in requestMeta') =>
               totalTasks'[b] = totalTasks[b]]_vars

\* the request was cancelled, its reader has ended and evicted the metadata,
\* and the marker is still set
C33_Witness ==
  /\ cancelFlag[1]
  /\ readerPc[1] = "done"
  /\ 1 \notin requestMeta
  /\ totalTasks[1] = MaxJobs

\* C34: once a request's generator has ended, by whatever exit, neither its
\* event queue nor its metadata is registered any more.
C34_EvictedOnExit ==
  \A b \in Batches :
    readerPc[b] = "done" => b \notin eventQueues /\ b \notin requestMeta

\* the tasks that workers hold
HeldTasks == {w \in Workers : wk[w].job # NoJob}

\* C35: the global queue's unfinished-task counter is the number of entries
\* on the queue plus the tasks the workers hold, and a worker that ends the
\* handling of a task finds the counter positive, so that task_done() does
\* not raise.
C35_QueueBalance ==
  /\ [](unfinished = Len(queue) + Cardinality(HeldTasks))
  /\ [][\A w \in Workers : LeavesTask(w) => ~TaskDoneRaises(unfinished)]_vars

\* C36: the completed counts of a request's successive progress events do not
\* decrease, and every progress event has 0 <= completed <= total and
\* completed + waiting <= total.
C36_ProgressMonotone ==
  \A b \in Batches :
    LET p == Progress(b)
    IN \A i \in 1..Len(p) :
         /\ 0 <= p[i].x /\ p[i].x <= p[i].y
         /\ p[i].x + p[i].z <= p[i].y
         /\ \A k \in 1..Len(p) : i <= k => p[i].x <= p[k].x

\* C37: every progress and all_tasks_completed event of a request carries the
\* number of tasks the request put on the queue as its total, whether the
\* worker computed it from the request's metadata or, before the metadata was
\* written or after it was evicted, from the registry.
C37_TotalIsSubmitted ==
  \A b \in Batches :
    \A i \in 1..Len(chan[b]) :
      chan[b][i].type \in {"progress", "all_tasks_completed"} =>
        chan[b][i].y = totalTasks[b]

\* a worker has put a progress event for a request of MaxJobs tasks whose
\* metadata the generator has not written yet
C37_Witness ==
  /\ readerPc[1] = "enqueued"
  /\ 1 \notin requestMeta
  /\ totalTasks[1] = MaxJobs
  /\ Progress(1) # << >>

\* task j is on the global queue, held by no worker, and its request's
\* generator has ended and evicted the event queue
Abandoned(j) ==
  /\ readerPc[BatchOf(j)] = "done"
  /\ BatchOf(j) \notin eventQueues
  /\ EntriesOf(j) # {}
  /\ Holders(j) = {}

\* C38: outside the cancel route, a step taken while a task is abandoned
\* makes no create call for it, leaves its status as it is and puts no event
\* about it; a worker that takes its entry off the head of the queue drops
\* the entry and stays ready for the next task.
C38_AbandonedDiscarded ==
  [][\A j \in JobIds :
       (Abandoned(j) /\ \A b \in Batches : ~IsCancelStep(b)) =>
         /\ createCalls'[j] = createCalls[j]
         /\ status'[j] = status[j]
         /\ \A i \in 1..Len(NewEvents(BatchOf(j))) : NewEvents(BatchOf(j))[i].job # j
         /\ Holders(j)' = {}
         /\ (Head(queue).job = j /\ \A w \in Workers : wk'[w] = wk[w]
               /\ Len(queue') # Len(queue)) =>
              queue' = Tail(queue)]_vars

\* a requeued task of a cancelled request whose generator has ended is gone
\* from the queue, still WAITING and never taken up again
C38_Witness ==
  \E j \in JobIds :
    /\ readerPc[BatchOf(j)] = "done"
    /\ BatchOf(j) \notin eventQueues
    /\ cancelFlag[BatchOf(j)]
    /\ status[j] = "WAITING"
    /\ capacityHits[j] = MaxRetries /\ createCalls[j] = MaxRetries
    /\ EntriesOf(j) = {}
    /\ Holders(j) = {}

============================================================================
